---- MODULE Spec2Model ----
(***************************************************************************)
(* Webhook endpoint lifecycle and request-capture pipeline of the Django   *)
(* webhook inspector: the view receive_webhook, the middleware             *)
(* RawRequestLoggingMiddleware.process_response, the model methods of      *)
(* WebhookEndpoint / WebhookAnalytics and the task                         *)
(* cleanup_expired_webhooks.  Every database statement is one step (the    *)
(* code opens no transaction and takes no row lock); what a handler keeps  *)
(* in memory between two statements is the handler's local state.          *)
(* Time is counted in minutes.                                             *)
(***************************************************************************)
EXTENDS Integers, Sequences, FiniteSets, TLC

-----------------------------------------------------------------------------
(* Bounds *)

\* concurrent request handlers (threads / processes serving HTTP)
NumWorkers == 2

\* inbound capture requests over a run
MaxCaptures == 4

\* largest quota an endpoint is created with
MaxQuota == 2

\* the instants the clock is observed at: creation, the expiry instant,
\* and one minute past it
TimePoints == {0, 60, 61}

\* endpoint tokens
Uuids == {1}

\* shapes of inbound requests
Shapes == {[method |-> "POST", content_type |-> "application/json"]}

Workers == 1..NumWorkers

\* endpoints created over a run
MaxEndpoints == 2

\* max_requests a creation request asks for: below, at and above the limits
\* of the serializer, and one the column itself refuses
QuotaInputs == {-1, 0, 1, 10000, 10001}

\* auto_delete_after_days a creation request asks for
HorizonInputs == {0, 7}

\* shapes of the requests sent to the gateway: every method the view lists,
\* one it does not list, and content types that name one, two or none of
\* json, xml, form and text, in either case
GatewayShapes ==
    {[method |-> "GET", content_type |-> "application/json"],
     [method |-> "POST", content_type |-> "text/xml"],
     [method |-> "PUT", content_type |-> "application/x-www-form-urlencoded"],
     [method |-> "PATCH", content_type |-> "text/plain"],
     [method |-> "DELETE", content_type |-> "Application/JSON+XML"],
     [method |-> "HEAD", content_type |-> ""],
     [method |-> "OPTIONS", content_type |-> "application/octet-stream"],
     [method |-> "TRACE", content_type |-> "multipart/form-data"]}

\* endpoint tokens the sweep runs over
SweepUuids == {1, 2}

\* auto_delete_after_days of the endpoints the sweep runs over: below, at
\* and above the seven days of the sweep's query
SweepHorizons == {1, 7, 30}

-----------------------------------------------------------------------------
(* Program constants *)

\* settings.WEBHOOK_EXPIRY_MINUTES, default window of a new endpoint
WEBHOOK_EXPIRY_MINUTES == 60

\* default of WebhookEndpoint.auto_delete_after_days
DefaultAutoDeleteDays == 7

\* timedelta(days=7) of the sweep's delete query
SweepCutoffDays == 7

\* the limits of WebhookEndpointCreateSerializer.validate_max_requests
MinMaxRequests == 1
MaxMaxRequests == 10000

\* the limits of WebhookEndpointCreateSerializer.validate_auto_delete_after_days
MinAutoDeleteDays == 1
MaxAutoDeleteDays == 365

\* expires_at IS NULL
None == -1

Days(d) == d * 24 * 60

\* the instants the sweep runs at: creation, one minute past the expiry
\* instant, and one minute past each auto-delete horizon
SweepTimePoints ==
    {0, WEBHOOK_EXPIRY_MINUTES + 1} \cup {Days(d) + 1 : d \in SweepHorizons}

-----------------------------------------------------------------------------
VARIABLES
    now,        \* timezone.now()
    endpoints,  \* table WebhookEndpoint: uuid -> row, for the rows that exist
    requests,   \* table WebhookRequest: sequence of rows, in insertion order
    next_id,    \* the AutoField sequence of table WebhookRequest
    analytics,  \* table WebhookAnalytics: uuid -> row, for the rows that exist
    pc,         \* worker -> position in the request / response cycle
    hook_uuid,  \* worker -> token of the URL being served
    shape,      \* worker -> request._webhook_data
    webhook,    \* worker -> the WebhookEndpoint instance held in memory
    webhook_request, \* worker -> the WebhookRequest instance it created
    stats,      \* worker -> the WebhookAnalytics instance held in memory
    response,   \* worker -> status code of the response being built
    request_count, \* worker -> 'request_count' of the JSON acknowledgment, 0 if none
    queue,      \* ids handed to process_webhook_request_async.delay, not yet run
    sweep_pc,   \* position of cleanup_expired_webhooks
    sweep,      \* the counts cleanup_expired_webhooks returns
    captures,   \* number of inbound requests received so far
    sweep_ran,  \* history: cleanup_expired_webhooks has started at least once
    sweep_seen, \* history: the clock at the first statement of the latest run
                \* and whether the run before it started at that same
                \* instant, kept while no request is served
    started_inactive, \* history: worker -> the stored status was not active when its request arrived
    decided,    \* history: worker -> the last usability decision it took and its inputs
    answered,   \* history: status code -> number of responses sent to callers
    trail       \* history: worker -> what happened to the request it is serving

vars == <<now, endpoints, requests, next_id, analytics, pc, hook_uuid, shape,
          webhook, webhook_request, stats, response, request_count, queue,
          sweep_pc, sweep, captures, sweep_ran, sweep_seen, started_inactive,
          decided,
          answered, trail>>

store == <<endpoints, requests, next_id, analytics>>
sweeper == <<sweep_pc, sweep, sweep_ran, sweep_seen>>

-----------------------------------------------------------------------------
(* Model instances *)

\* WebhookEndpoint.objects.create(...) followed by WebhookEndpoint.save:
\* a new row is active, has count 0 and, with no expiry given, expires one
\* default window after creation
NewEndpoint(quota, expires, days, t) ==
    [status |-> "active",
     created_at |-> t,
     expires_at |-> IF expires = None THEN t + WEBHOOK_EXPIRY_MINUTES ELSE expires,
     max_requests |-> quota,
     current_request_count |-> 0,
     auto_delete_after_days |-> days]

\* a WebhookAnalytics row with the field defaults
NewAnalytics ==
    [total_requests |-> 0, successful_requests |-> 0, failed_requests |-> 0,
     get_requests |-> 0, post_requests |-> 0, put_requests |-> 0,
     patch_requests |-> 0, delete_requests |-> 0, other_requests |-> 0,
     json_requests |-> 0, xml_requests |-> 0, form_requests |-> 0,
     text_requests |-> 0, other_content_requests |-> 0,
     last_request_at |-> None]

\* no instance loaded
NoWebhook ==
    [status |-> "none", created_at |-> 0, expires_at |-> None, max_requests |-> 0,
     current_request_count |-> 0, auto_delete_after_days |-> 0]

\* no WebhookRequest instance created
NoRequest ==
    [id |-> 0, webhook |-> 0, method |-> "", content_type |-> "",
     received_at |-> 0, processed |-> FALSE, processed_at |-> None]

\* a row inserted as already processed
new_request_processed(id, u, s, t) ==
    [id |-> id, webhook |-> u, method |-> s.method,
     content_type |-> s.content_type, received_at |-> t,
     processed |-> TRUE, processed_at |-> t]

\* the row WebhookRequest.objects.create inserts for a request of shape s
new_request(id, u, s, t) ==
    [id |-> id, webhook |-> u, method |-> s.method,
     content_type |-> s.content_type, received_at |-> t,
     processed |-> FALSE, processed_at |-> None]

\* nothing has happened to the request: overtaken is 1 + the stored count at
\* the moment the sweep expired the endpoint under a capture already past its
\* check (0 if it did not), failed the statement that raised ("" if none)
NoTrail == [overtaken |-> 0, failed |-> ""]

\* no run of the sweep since the last request arrived
NoSweepSeen == [at |-> None, repeat |-> FALSE]

NoDecision == [taken |-> FALSE, usable |-> FALSE, at |-> 0, on |-> NoWebhook]

-----------------------------------------------------------------------------
(* WebhookEndpoint *)

\* is_expired testing the expiry time alone
is_expired_by_time_only(w, t) ==
    w.expires_at # None /\ t > w.expires_at

\* is_expired with the expiry instant itself counted as expired
is_expired_at_expiry(w, t) ==
    \/ w.status # "active"
    \/ (w.expires_at # None /\ t >= w.expires_at)
    \/ w.current_request_count >= w.max_requests

\* property is_expired, evaluated on the in-memory instance w at time t
is_expired(w, t) ==
    \/ w.status # "active"
    \/ (w.expires_at # None /\ t > w.expires_at)
    \/ w.current_request_count >= w.max_requests

\* should_auto_delete without its comparison
should_auto_delete_whatever(w, t) == TRUE

\* property should_auto_delete
should_auto_delete(w, t) ==
    w.created_at < t - Days(w.auto_delete_after_days)

\* increment_request_count without its status update
incremented_keeping_status(w) ==
    [w EXCEPT !.current_request_count = w.current_request_count + 1]

\* the instance after the in-memory part of increment_request_count
incremented(w) ==
    LET n == w.current_request_count + 1 IN
    [w EXCEPT !.current_request_count = n,
              !.status = IF n >= w.max_requests THEN "expired" ELSE w.status]

\* Model.save(): UPDATE of every column by primary key, INSERT when the
\* row is gone
save_all(table, u, w) ==
    IF u \in DOMAIN table
    THEN [table EXCEPT ![u] = w]
    ELSE [x \in DOMAIN table \cup {u} |-> IF x = u THEN w ELSE table[x]]

\* save(update_fields=['current_request_count', 'status']): UPDATE of the two
\* columns from the instance; the caller handles the missing row
save_count_status(table, u, w) ==
    [table EXCEPT ![u].current_request_count = w.current_request_count,
                  ![u].status = w.status]

\* 'request_count': webhook.current_request_count + 1 of the view's response
ack_count(w) == w.current_request_count + 1

\* rows of WebhookRequest that belong to endpoint u
requests_of(u) == {i \in 1..Len(requests) : requests[i].webhook = u}

-----------------------------------------------------------------------------
(* WebhookAnalytics *)

\* the letters str.lower() changes
Upper ==
    [A |-> "a", B |-> "b", C |-> "c", D |-> "d", E |-> "e", F |-> "f", G |-> "g",
     H |-> "h", I |-> "i", J |-> "j", K |-> "k", L |-> "l", M |-> "m", N |-> "n",
     O |-> "o", P |-> "p", Q |-> "q", R |-> "r", S |-> "s", T |-> "t", U |-> "u",
     V |-> "v", W |-> "w", X |-> "x", Y |-> "y", Z |-> "z"]

\* str.lower()
RECURSIVE lower(_)
lower(t) ==
    IF t = "" THEN ""
    ELSE LET c == SubSeq(t, 1, 1) IN
         (IF c \in DOMAIN Upper THEN Upper[c] ELSE c) \o lower(SubSeq(t, 2, Len(t)))

\* w in t
contains(t, w) ==
    \E i \in 1..(Len(t) - Len(w) + 1) : SubSeq(t, i, i + Len(w) - 1) = w

\* the method bucket without lower()
method_field_as_sent(a, m) ==
    LET f == m \o "_requests" IN
    IF f \in DOMAIN a THEN f ELSE "other_requests"

\* f"{request_obj.method.lower()}_requests" if the instance has that
\* attribute, other_requests if not
method_field(a, m) ==
    LET f == lower(m) \o "_requests" IN
    IF f \in DOMAIN a THEN f ELSE "other_requests"

\* the content type bucket with the xml test ahead of the json test
content_field_xml_first(ct) ==
    IF ct = "" THEN "other_content_requests"
    ELSE IF contains(lower(ct), "xml") THEN "xml_requests"
    ELSE IF contains(lower(ct), "json") THEN "json_requests"
    ELSE IF contains(lower(ct), "form") THEN "form_requests"
    ELSE IF contains(lower(ct), "text") THEN "text_requests"
    ELSE "other_content_requests"

\* the content type bucket: the first of json, xml, form, text that the
\* lower-cased content type contains
content_field(ct) ==
    IF ct = "" THEN "other_content_requests"
    ELSE IF contains(lower(ct), "json") THEN "json_requests"
    ELSE IF contains(lower(ct), "xml") THEN "xml_requests"
    ELSE IF contains(lower(ct), "form") THEN "form_requests"
    ELSE IF contains(lower(ct), "text") THEN "text_requests"
    ELSE "other_content_requests"

\* instance a with its field f raised by one
bumped(a, f) == [a EXCEPT ![f] = @ + 1]

\* update_stats(request_obj) on the in-memory instance a
update_stats(a, r) ==
    LET b == [a EXCEPT !.total_requests = a.total_requests + 1,
                       !.successful_requests = a.successful_requests + 1,
                       !.last_request_at = r.received_at] IN
    bumped(bumped(b, method_field(b, r.method)), content_field(r.content_type))

-----------------------------------------------------------------------------
(* The capture path: one action per database statement of a request *)

goto(p, l) == pc' = [pc EXCEPT ![p] = l]

\* history of the branch a check took: the instance and the time it read
decide(p, accepted) ==
    decided' = [decided EXCEPT ![p] =
        [taken |-> TRUE, usable |-> accepted, at |-> now, on |-> webhook[p]]]

\* the rejection branch without its save()
mark_expired_unsaved(p) ==
    /\ webhook' = [webhook EXCEPT ![p] = [webhook[p] EXCEPT !.status = "expired"]]
    /\ endpoints' = endpoints

\* the rejection branch: webhook.status = 'expired'; webhook.save()
mark_expired(p) ==
    LET w == [webhook[p] EXCEPT !.status = "expired"] IN
    /\ webhook' = [webhook EXCEPT ![p] = w]
    /\ endpoints' = save_all(endpoints, hook_uuid[p], w)

\* the methods require_http_methods lets through to receive_webhook
AllowedMethods == {"GET", "POST", "PUT", "PATCH", "DELETE", "HEAD", "OPTIONS"}

\* process_request of the middleware, then the view up to its query:
\* require_http_methods answers 405 to a method it does not list;
\* get_object_or_404 raises Http404 inside the view's try block, whose
\* except Exception answers 500 and leaves request.webhook_uuid unset
Receive(p, u, s) ==
    /\ pc[p] = "idle"
    /\ captures < MaxCaptures
    /\ captures' = captures + 1
    /\ hook_uuid' = [hook_uuid EXCEPT ![p] = u]
    /\ shape' = [shape EXCEPT ![p] = s]
    /\ started_inactive' = [started_inactive EXCEPT ![p] =
            u \in DOMAIN endpoints /\ endpoints[u].status # "active"]
    /\ IF s.method \notin AllowedMethods
       THEN /\ webhook' = webhook
            /\ response' = [response EXCEPT ![p] = 405]
            /\ goto(p, "respond")
       ELSE IF u \in DOMAIN endpoints
       THEN /\ webhook' = [webhook EXCEPT ![p] = endpoints[u]]
            /\ response' = response
            /\ goto(p, "view_check")
       ELSE /\ webhook' = webhook
            /\ response' = [response EXCEPT ![p] = 500]
            /\ goto(p, "respond")
    /\ sweep_seen' = NoSweepSeen
    /\ UNCHANGED <<now, store, webhook_request, stats, sweep_pc, sweep, sweep_ran,
                   decided, answered>>
    /\ UNCHANGED <<request_count, queue, trail>>

\* the view's check of webhook.is_expired and its response: 410, or the JSON
\* acknowledgment with request_count = webhook.current_request_count + 1
ViewCheck(p) ==
    /\ pc[p] = "view_check"
    /\ IF is_expired(webhook[p], now)
       THEN /\ mark_expired(p)
            /\ response' = [response EXCEPT ![p] = 410]
            /\ request_count' = request_count
            /\ decide(p, FALSE)
       ELSE /\ response' = [response EXCEPT ![p] = 200]
            /\ request_count' = [request_count EXCEPT ![p] =
                                    ack_count(webhook[p])]
            /\ decide(p, TRUE)
            /\ UNCHANGED <<webhook, endpoints>>
    /\ goto(p, "mw_get")
    /\ UNCHANGED <<now, requests, next_id, analytics, hook_uuid, shape,
                   webhook_request, stats, sweeper, captures, started_inactive,
                   answered>>
    /\ UNCHANGED <<queue, trail>>

\* process_response: WebhookEndpoint.objects.get(uuid=request.webhook_uuid);
\* DoesNotExist is logged and the view's response returned
MwGet(p) ==
    /\ pc[p] = "mw_get"
    /\ IF hook_uuid[p] \in DOMAIN endpoints
       THEN /\ webhook' = [webhook EXCEPT ![p] = endpoints[hook_uuid[p]]]
            /\ goto(p, "mw_check")
       ELSE /\ webhook' = webhook
            /\ goto(p, "respond")
    /\ UNCHANGED <<now, store, hook_uuid, shape, webhook_request, stats,
                   response, sweeper, captures, started_inactive, decided,
                   answered>>
    /\ UNCHANGED <<request_count, queue, trail>>

\* process_response: the check of webhook.is_expired on the fresh instance;
\* the rejection replaces the view's response by a plain 410
MwCheck(p) ==
    /\ pc[p] = "mw_check"
    /\ IF is_expired(webhook[p], now)
       THEN /\ mark_expired(p)
            /\ response' = [response EXCEPT ![p] = 410]
            /\ request_count' = [request_count EXCEPT ![p] = 0]
            /\ decide(p, FALSE)
            /\ goto(p, "respond")
       ELSE /\ UNCHANGED <<webhook, endpoints, response, request_count>>
            /\ decide(p, TRUE)
            /\ goto(p, "mw_create")
    /\ UNCHANGED <<now, requests, next_id, analytics, hook_uuid, shape,
                   webhook_request, stats, sweeper, captures, started_inactive,
                   answered>>
    /\ UNCHANGED <<queue, trail>>

\* process_response: WebhookRequest.objects.create(...); the insert fails on
\* the foreign key when the endpoint row is gone, and except Exception
\* returns the view's response
MwCreate(p) ==
    /\ pc[p] = "mw_create"
    /\ IF hook_uuid[p] \in DOMAIN endpoints
       THEN LET r == new_request(next_id, hook_uuid[p], shape[p], now) IN
            /\ requests' = Append(requests, r)
            /\ next_id' = next_id + 1
            /\ webhook_request' = [webhook_request EXCEPT ![p] = r]
            /\ goto(p, "mw_increment")
       ELSE /\ UNCHANGED <<requests, next_id, webhook_request>>
            /\ goto(p, "respond")
    /\ UNCHANGED <<now, endpoints, analytics, hook_uuid, shape, webhook, stats,
                   response, sweeper, captures, started_inactive, decided,
                   answered>>
    /\ UNCHANGED <<request_count, queue, trail>>

\* process_response: webhook.increment_request_count(); with update_fields
\* a save that matches no row raises DatabaseError
MwIncrement(p) ==
    /\ pc[p] = "mw_increment"
    /\ webhook' = [webhook EXCEPT ![p] = incremented(webhook[p])]
    /\ IF hook_uuid[p] \in DOMAIN endpoints
       THEN /\ endpoints' = save_count_status(endpoints, hook_uuid[p],
                                              incremented(webhook[p]))
            /\ goto(p, "mw_analytics")
       ELSE /\ endpoints' = endpoints
            /\ goto(p, "respond")
    /\ UNCHANGED <<now, requests, next_id, analytics, hook_uuid, shape,
                   webhook_request, stats, response, sweeper, captures,
                   started_inactive, decided, answered>>
    /\ UNCHANGED <<request_count, queue, trail>>

\* process_response: WebhookAnalytics.objects.get_or_create(webhook=webhook)
MwGetOrCreate(p) ==
    /\ pc[p] = "mw_analytics"
    /\ IF hook_uuid[p] \in DOMAIN analytics
       THEN /\ stats' = [stats EXCEPT ![p] = analytics[hook_uuid[p]]]
            /\ analytics' = analytics
            /\ goto(p, "mw_stats")
       ELSE IF hook_uuid[p] \in DOMAIN endpoints
       THEN /\ stats' = [stats EXCEPT ![p] = NewAnalytics]
            /\ analytics' = save_all(analytics, hook_uuid[p], NewAnalytics)
            /\ goto(p, "mw_stats")
       ELSE /\ UNCHANGED <<stats, analytics>>
            /\ goto(p, "respond")
    /\ UNCHANGED <<now, endpoints, requests, next_id, hook_uuid, shape, webhook,
                   webhook_request, response, sweeper, captures,
                   started_inactive, decided, answered>>
    /\ UNCHANGED <<request_count, queue, trail>>

\* process_response: analytics.update_stats(webhook_request), whose save()
\* writes every column of the in-memory instance, and then
\* process_webhook_request_async.delay(webhook_request.id)
MwUpdateStats(p) ==
    /\ pc[p] = "mw_stats"
    /\ stats' = [stats EXCEPT ![p] = update_stats(stats[p], webhook_request[p])]
    /\ IF hook_uuid[p] \in DOMAIN analytics \/ hook_uuid[p] \in DOMAIN endpoints
       THEN /\ analytics' = save_all(analytics, hook_uuid[p],
                                     update_stats(stats[p], webhook_request[p]))
            /\ queue' = queue \cup {webhook_request[p].id}
       ELSE /\ analytics' = analytics
            /\ queue' = queue
    /\ goto(p, "respond")
    /\ UNCHANGED <<now, endpoints, requests, next_id, hook_uuid, shape, webhook,
                   webhook_request, response, sweeper, captures,
                   started_inactive, decided, answered>>
    /\ UNCHANGED <<request_count, trail>>

\* the response leaves the middleware stack and the worker is free again
Respond(p) ==
    /\ pc[p] = "respond"
    /\ answered' = [answered EXCEPT ![response[p]] = @ + 1]
    /\ goto(p, "idle")
    /\ hook_uuid' = [hook_uuid EXCEPT ![p] = 0]
    /\ shape' = [shape EXCEPT ![p] = [method |-> "", content_type |-> ""]]
    /\ webhook' = [webhook EXCEPT ![p] = NoWebhook]
    /\ webhook_request' = [webhook_request EXCEPT ![p] = NoRequest]
    /\ stats' = [stats EXCEPT ![p] = NewAnalytics]
    /\ response' = [response EXCEPT ![p] = 0]
    /\ request_count' = [request_count EXCEPT ![p] = 0]
    /\ started_inactive' = [started_inactive EXCEPT ![p] = FALSE]
    /\ decided' = [decided EXCEPT ![p] = NoDecision]
    /\ trail' = [trail EXCEPT ![p] = NoTrail]
    /\ UNCHANGED <<now, store, sweeper, captures, queue>>

\* CORSMiddleware.process_request: an OPTIONS request to the capture route
\* is answered at once with an empty 200 and never reaches the view
Preflight(p, u, s) ==
    /\ pc[p] = "idle"
    /\ captures < MaxCaptures
    /\ s.method = "OPTIONS"
    /\ captures' = captures + 1
    /\ hook_uuid' = [hook_uuid EXCEPT ![p] = u]
    /\ shape' = [shape EXCEPT ![p] = s]
    /\ response' = [response EXCEPT ![p] = 200]
    /\ goto(p, "respond")
    /\ sweep_seen' = NoSweepSeen
    /\ UNCHANGED <<now, store, webhook, webhook_request, stats, request_count,
                   queue, sweep_pc, sweep, sweep_ran, started_inactive, decided,
                   answered, trail>>

-----------------------------------------------------------------------------
(* Endpoint creation *)

\* the token of the next endpoint
fresh_uuid == CHOOSE u \in 1..MaxEndpoints : u \notin DOMAIN endpoints

\* WebhookEndpoint.objects.create: the insert of a new row; the columns are
\* PositiveIntegerField, whose CHECK refuses a negative value
created(q, d) ==
    IF q < 0 \/ d < 0 THEN endpoints
    ELSE [u \in DOMAIN endpoints \cup {fresh_uuid} |->
            IF u = fresh_uuid THEN NewEndpoint(q, None, d, now) ELSE endpoints[u]]

\* a handler other than the capture answers with code c and changes no
\* request row, analytics row or capture in flight
answers(p, c) ==
    /\ pc[p] = "idle"
    /\ captures < MaxCaptures
    /\ captures' = captures + 1
    /\ response' = [response EXCEPT ![p] = c]
    /\ goto(p, "respond")
    /\ UNCHANGED <<now, requests, next_id, hook_uuid, shape, webhook,
                   webhook_request, stats, request_count, queue, sweeper,
                   started_inactive, decided, answered, trail>>

\* create_webhook: max_requests and auto_delete_after_days are taken from
\* the body as they are; an exception of the insert is answered 400
create_webhook(p, q, d) ==
    /\ \E u \in 1..MaxEndpoints : u \notin DOMAIN endpoints
    /\ endpoints' = created(q, d)
    /\ answers(p, IF endpoints' = endpoints THEN 400 ELSE 200)
    /\ UNCHANGED analytics

\* WebhookEndpointCreateSerializer.validate_max_requests
validate_max_requests(q) == q >= MinMaxRequests /\ q <= MaxMaxRequests

\* WebhookEndpointCreateSerializer.validate_auto_delete_after_days
validate_auto_delete_after_days(d) == d >= MinAutoDeleteDays /\ d <= MaxAutoDeleteDays

\* WebhookEndpointListCreateView.create: is_valid(raise_exception=True)
\* answers 400, save() inserts the row and the answer is 201
ListCreate(p, q, d) ==
    /\ \E u \in 1..MaxEndpoints : u \notin DOMAIN endpoints
    /\ IF validate_max_requests(q) /\ validate_auto_delete_after_days(d)
       THEN /\ endpoints' = created(q, d)
            /\ answers(p, 201)
       ELSE /\ endpoints' = endpoints
            /\ answers(p, 400)
    /\ UNCHANGED analytics

-----------------------------------------------------------------------------
(* Read surfaces *)

\* a handler that only queries: 200 for a stored endpoint, code missing for
\* a token that is not stored
queries(p, u, missing) ==
    /\ answers(p, IF u \in DOMAIN endpoints THEN 200 ELSE missing)
    /\ UNCHANGED <<endpoints, analytics>>

\* inspect_webhook: get_object_or_404 and the page of the endpoint's rows
inspect_webhook(p, u) == queries(p, u, 404)

\* WebhookRequestListView with a hook_uuid
RequestList(p, u) == queries(p, u, 404)

\* WebhookStatsView.get
StatsGet(p, u) == queries(p, u, 404)

\* webhook_health_check: its except Exception answers 500 for the Http404
webhook_health_check(p, u) == queries(p, u, 500)

\* WebhookExportView.get
ExportGet(p, u) == queries(p, u, 404)

\* WebhookAnalyticsView.get: WebhookAnalytics.objects.get, and on
\* DoesNotExist WebhookAnalytics.objects.create(webhook=webhook)
AnalyticsGet(p, u) ==
    /\ answers(p, IF u \in DOMAIN endpoints THEN 200 ELSE 404)
    /\ analytics' = IF u \in DOMAIN endpoints /\ u \notin DOMAIN analytics
                    THEN save_all(analytics, u, NewAnalytics)
                    ELSE analytics
    /\ UNCHANGED endpoints

-----------------------------------------------------------------------------
(* Persistence failures *)

\* the view's query raises a database error: its except Exception answers
\* 500, request.webhook_uuid stays unset and the middleware does nothing
ReceiveFails(p, u, s) ==
    /\ pc[p] = "idle"
    /\ captures < MaxCaptures
    /\ captures' = captures + 1
    /\ hook_uuid' = [hook_uuid EXCEPT ![p] = u]
    /\ shape' = [shape EXCEPT ![p] = s]
    /\ response' = [response EXCEPT ![p] = 500]
    /\ trail' = [trail EXCEPT ![p].failed = "view_get"]
    /\ goto(p, "respond")
    /\ sweep_seen' = NoSweepSeen
    /\ UNCHANGED <<now, store, webhook, webhook_request, stats, request_count,
                   queue, sweep_pc, sweep, sweep_ran, started_inactive, decided,
                   answered>>

\* the statements of process_response's accepting path
Statements == {"mw_get", "mw_create", "mw_increment", "mw_analytics", "mw_stats"}

\* a statement of process_response raises a database error: except Exception
\* logs it and the view's response is returned as it is
Fault(p) ==
    /\ pc[p] \in Statements
    /\ trail' = [trail EXCEPT ![p].failed = pc[p]]
    /\ goto(p, "respond")
    /\ UNCHANGED <<now, store, hook_uuid, shape, webhook, webhook_request, stats,
                   response, request_count, queue, sweeper, captures,
                   started_inactive, decided, answered>>

-----------------------------------------------------------------------------
(* process_webhook_request_async *)

\* the rows with request i marked processed
processed_rows(rows, i, t) ==
    [k \in 1..Len(rows) |->
        IF rows[k].id = i
        THEN [rows[k] EXCEPT !.processed = TRUE, !.processed_at = t]
        ELSE rows[k]]

\* the Celery task for request i: get the row, set processed, save; a
\* missing row is reported and not retried
ProcessAsync(i) ==
    /\ i \in queue
    /\ queue' = queue \ {i}
    /\ requests' = processed_rows(requests, i, now)
    /\ UNCHANGED <<now, endpoints, next_id, analytics, pc, hook_uuid, shape,
                   webhook, webhook_request, stats, response, request_count,
                   sweeper, captures, started_inactive, decided, answered,
                   trail>>

-----------------------------------------------------------------------------
(* cleanup_expired_webhooks: one action per statement *)

\* the time query without its status filter
by_time_any_status(t) ==
    {u \in DOMAIN endpoints :
        /\ endpoints[u].expires_at # None
        /\ endpoints[u].expires_at < t}

\* filter(status='active', expires_at__lt=now)
by_time(t) ==
    {u \in DOMAIN endpoints :
        /\ endpoints[u].status = "active"
        /\ endpoints[u].expires_at # None
        /\ endpoints[u].expires_at < t}

\* the limit query with a strict comparison
by_limit_above ==
    {u \in DOMAIN endpoints :
        /\ endpoints[u].status = "active"
        /\ endpoints[u].current_request_count > endpoints[u].max_requests}

\* filter(status='active').extra(where current_request_count >= max_requests)
by_limit ==
    {u \in DOMAIN endpoints :
        /\ endpoints[u].status = "active"
        /\ endpoints[u].current_request_count >= endpoints[u].max_requests}

\* filter(created_at__lt=now - 7 days, status__in=[expired, disabled]),
\* narrowed by should_auto_delete in the loop
to_delete(t) ==
    {u \in DOMAIN endpoints :
        /\ endpoints[u].created_at < t - Days(SweepCutoffDays)
        /\ endpoints[u].status \in {"expired", "disabled"}
        /\ should_auto_delete(endpoints[u], t)}

\* queryset.update(status='expired')
expire(hit) ==
    [u \in DOMAIN endpoints |->
        IF u \in hit THEN [endpoints[u] EXCEPT !.status = "expired"]
        ELSE endpoints[u]]

\* positions of a capture between its accepted check and its response
PastCheck == {"mw_create", "mw_increment", "mw_analytics", "mw_stats"}

\* history: the captures in flight past their check on an endpoint of hit
overtake(hit) ==
    trail' = [p \in Workers |->
        IF /\ pc[p] \in PastCheck
           /\ hook_uuid[p] \in hit
           /\ trail[p].overtaken = 0
        THEN [trail[p] EXCEPT !.overtaken = 1 + endpoints[hook_uuid[p]].current_request_count]
        ELSE trail[p]]

\* filter(status='active', expires_at__lt=now).update(status='expired')
SweepExpireTime ==
    /\ sweep_pc = "idle"
    /\ endpoints' = expire(by_time(now))
    /\ sweep' = [expired_by_time |-> Cardinality(by_time(now)),
                 expired_by_limit |-> 0,
                 deleted_webhooks |-> 0, deleted_requests |-> 0]
    /\ overtake(by_time(now))
    /\ sweep_pc' = "limit"
    /\ sweep_ran' = TRUE
    /\ sweep_seen' = IF \A p \in Workers : pc[p] = "idle"
                     THEN [at |-> now, repeat |-> sweep_seen.at = now]
                     ELSE NoSweepSeen
    /\ UNCHANGED <<now, requests, next_id, analytics, pc, hook_uuid, shape,
                   webhook, webhook_request, stats, response, captures,
                   started_inactive, decided, answered>>
    /\ UNCHANGED <<request_count, queue>>

\* filter(status='active').extra(where current_request_count >= max_requests)
\*     .update(status='expired')
SweepExpireLimit ==
    /\ sweep_pc = "limit"
    /\ endpoints' = expire(by_limit)
    /\ sweep' = [sweep EXCEPT !.expired_by_limit = Cardinality(by_limit)]
    /\ overtake(by_limit)
    /\ sweep_pc' = "delete"
    /\ UNCHANGED <<now, requests, next_id, analytics, pc, hook_uuid, shape,
                   webhook, webhook_request, stats, response, captures,
                   sweep_ran, sweep_seen, started_inactive, decided, answered>>
    /\ UNCHANGED <<request_count, queue>>

\* filter(created_at__lt=now - 7 days, status__in=[expired, disabled]) and,
\* for each of them with should_auto_delete, requests.count() and delete()
SweepDelete ==
    /\ sweep_pc = "delete"
    /\ LET hit == to_delete(now) IN
       /\ endpoints' = [u \in DOMAIN endpoints \ hit |-> endpoints[u]]
       /\ analytics' = [u \in DOMAIN analytics \ hit |-> analytics[u]]
       /\ requests' = SelectSeq(requests, LAMBDA r : r.webhook \notin hit)
       /\ sweep' = [sweep EXCEPT
              !.deleted_webhooks = Cardinality(hit),
              !.deleted_requests =
                  Cardinality({i \in 1..Len(requests) : requests[i].webhook \in hit})]
    /\ sweep_pc' = "idle"
    /\ UNCHANGED <<now, next_id, pc, hook_uuid, shape, webhook, webhook_request,
                   stats, response, captures, sweep_ran, sweep_seen,
                   started_inactive,
                   decided, answered>>
    /\ UNCHANGED <<request_count, queue, trail>>

-----------------------------------------------------------------------------
(* Time *)

\* the clock moves on to a later instant of the set points
TickOver(points) ==
    /\ \E t \in points : t > now /\ now' = t
    /\ UNCHANGED <<store, pc, hook_uuid, shape, webhook, webhook_request, stats,
                   response, sweeper, captures, started_inactive, decided,
                   answered>>
    /\ UNCHANGED <<request_count, queue, trail>>

\* the clock moves on to a later instant
Tick == TickOver(TimePoints)

-----------------------------------------------------------------------------
(* Specification *)

\* one endpoint per token, just created by create_webhook (or with its
\* expiry cleared, the column being nullable), and nothing captured yet
\* no request is being served, the sweep is not running, nothing is queued
Idle ==
    /\ pc = [p \in Workers |-> "idle"]
    /\ hook_uuid = [p \in Workers |-> 0]
    /\ shape = [p \in Workers |-> [method |-> "", content_type |-> ""]]
    /\ webhook = [p \in Workers |-> NoWebhook]
    /\ webhook_request = [p \in Workers |-> NoRequest]
    /\ stats = [p \in Workers |-> NewAnalytics]
    /\ response = [p \in Workers |-> 0]
    /\ sweep_pc = "idle"
    /\ sweep = [expired_by_time |-> 0, expired_by_limit |-> 0,
                deleted_webhooks |-> 0, deleted_requests |-> 0]
    /\ captures = 0
    /\ sweep_ran = FALSE
    /\ sweep_seen = NoSweepSeen
    /\ started_inactive = [p \in Workers |-> FALSE]
    /\ decided = [p \in Workers |-> NoDecision]
    /\ answered = [c \in {200, 201, 400, 404, 405, 410, 500} |-> 0]
    /\ request_count = [p \in Workers |-> 0]
    /\ queue = {}
    /\ trail = [p \in Workers |-> NoTrail]

Init ==
    /\ now = 0
    /\ \E q \in 1..MaxQuota, e \in {None, WEBHOOK_EXPIRY_MINUTES} :
          endpoints = [u \in Uuids |->
              [NewEndpoint(q, None, DefaultAutoDeleteDays, 0) EXCEPT !.expires_at = e]]
    /\ requests = <<>>
    /\ next_id = 1
    /\ analytics = [u \in {} |-> NewAnalytics]
    /\ Idle

Next ==
    \/ \E p \in Workers, u \in Uuids, s \in Shapes : Receive(p, u, s)
    \/ \E p \in Workers : ViewCheck(p)
    \/ \E p \in Workers : MwGet(p)
    \/ \E p \in Workers : MwCheck(p)
    \/ \E p \in Workers : MwCreate(p)
    \/ \E p \in Workers : MwIncrement(p)
    \/ \E p \in Workers : MwGetOrCreate(p)
    \/ \E p \in Workers : MwUpdateStats(p)
    \/ \E p \in Workers : Respond(p)
    \/ SweepExpireTime
    \/ SweepExpireLimit
    \/ SweepDelete
    \/ Tick

Spec == Init /\ [][Next]_vars

\* an endpoint whose status was set to one of the non-active STATUS_CHOICES
\* (the admin site writes the column directly)
InitAdmin ==
    /\ now = 0
    /\ \E q \in 1..MaxQuota, e \in {None, WEBHOOK_EXPIRY_MINUTES},
          st \in {"expired", "disabled"} :
          endpoints = [u \in Uuids |->
              [NewEndpoint(q, None, DefaultAutoDeleteDays, 0)
                  EXCEPT !.expires_at = e, !.status = st]]
    /\ requests = <<>>
    /\ next_id = 1
    /\ analytics = [u \in {} |-> NewAnalytics]
    /\ Idle

\* the steps a request to a non-active endpoint can take, and the sweep
NextAdmin ==
    \/ \E p \in Workers, u \in Uuids, s \in Shapes : Receive(p, u, s)
    \/ \E p \in Workers : ViewCheck(p)
    \/ \E p \in Workers : MwGet(p)
    \/ \E p \in Workers : MwCheck(p)
    \/ \E p \in Workers : Respond(p)
    \/ SweepExpireTime
    \/ SweepExpireLimit
    \/ SweepDelete
    \/ Tick

SpecAdmin == InitAdmin /\ [][NextAdmin]_vars

\* quota, count and status of the endpoints the sweep finds: created with
\* max_requests 0 or 1 and untouched, switched off, or used up by a capture
SweepFinds ==
    {<<0, 0, "active">>, <<1, 0, "active">>, <<1, 0, "disabled">>,
     <<1, 0, "expired">>, <<1, 1, "expired">>}

\* the WebhookRequest rows of the captures counted in table e, in uuid order
RECURSIVE rows_for(_, _, _)
rows_for(e, us, id) ==
    IF us = {} THEN <<>>
    ELSE LET u == CHOOSE x \in us : \A y \in us : x <= y IN
         IF e[u].current_request_count = 0 THEN rows_for(e, us \ {u}, id)
         ELSE <<new_request(id, u, CHOOSE x \in Shapes : TRUE, 0)>>
                  \o rows_for(e, us \ {u}, id + 1)

\* endpoints created at minute 0 and the rows their captures left, with
\* no request in flight
InitSweep ==
    /\ now = 0
    /\ \E f \in [SweepUuids -> SweepFinds],
          d \in [SweepUuids -> SweepHorizons],
          e \in [SweepUuids -> {None, WEBHOOK_EXPIRY_MINUTES}] :
          endpoints = [u \in SweepUuids |->
              [NewEndpoint(f[u][1], None, d[u], 0) EXCEPT
                  !.expires_at = e[u],
                  !.current_request_count = f[u][2],
                  !.status = f[u][3]]]
    /\ requests = rows_for(endpoints, SweepUuids, 1)
    /\ next_id = Len(requests) + 1
    /\ analytics = [u \in {x \in SweepUuids : endpoints[x].current_request_count > 0}
                        |-> update_stats(NewAnalytics, requests[1])]
    /\ Idle

\* the sweep running on its own while the clock moves
NextSweep ==
    \/ SweepExpireTime
    \/ SweepExpireLimit
    \/ SweepDelete
    \/ TickOver(SweepTimePoints)

SpecSweep == InitSweep /\ [][NextSweep]_vars

\* the handler of a server that serves one request at a time
Serial == {CHOOSE p \in Workers : TRUE}

\* the statements of a request once it is received
Serve(p) ==
    \/ ViewCheck(p)
    \/ MwGet(p)
    \/ MwCheck(p)
    \/ MwCreate(p)
    \/ MwIncrement(p)
    \/ MwGetOrCreate(p)
    \/ MwUpdateStats(p)
    \/ Respond(p)

\* no endpoint yet
InitCreate ==
    /\ now = 0
    /\ endpoints = [u \in {} |-> NoWebhook]
    /\ requests = <<>>
    /\ next_id = 1
    /\ analytics = [u \in {} |-> NewAnalytics]
    /\ Idle

\* endpoints being created on both creation paths while the clock moves
NextCreate ==
    \/ \E p \in Workers, q \in QuotaInputs, d \in HorizonInputs : create_webhook(p, q, d)
    \/ \E p \in Workers, q \in QuotaInputs, d \in HorizonInputs : ListCreate(p, q, d)
    \/ \E p \in Workers : Respond(p)
    \/ Tick

SpecCreate == InitCreate /\ [][NextCreate]_vars

\* captures served one at a time, and the read surfaces called for the
\* stored token and for one that is not stored
NextRead ==
    \/ \E p \in Serial, u \in Uuids, s \in Shapes : Receive(p, u, s)
    \/ \E p \in Serial : Serve(p)
    \/ \E p \in Workers, u \in SweepUuids : inspect_webhook(p, u)
    \/ \E p \in Workers, u \in SweepUuids : RequestList(p, u)
    \/ \E p \in Workers, u \in SweepUuids : AnalyticsGet(p, u)
    \/ \E p \in Workers, u \in SweepUuids : StatsGet(p, u)
    \/ \E p \in Workers, u \in SweepUuids : webhook_health_check(p, u)
    \/ \E p \in Workers, u \in SweepUuids : ExportGet(p, u)

SpecRead == Init /\ [][NextRead]_vars

\* one endpoint whose quota is small or covers every request of the run
InitGateway ==
    /\ now = 0
    /\ \E q \in (1..MaxQuota) \cup {MaxCaptures} :
          endpoints = [u \in Uuids |->
              [NewEndpoint(q, None, DefaultAutoDeleteDays, 0) EXCEPT !.expires_at = None]]
    /\ requests = <<>>
    /\ next_id = 1
    /\ analytics = [u \in {} |-> NewAnalytics]
    /\ Idle

\* requests of every shape, to the stored token and to one that is not
\* stored, served one at a time
NextGateway ==
    \/ \E p \in Serial, u \in SweepUuids, s \in GatewayShapes : Receive(p, u, s)
    \/ \E p \in Serial, u \in SweepUuids, s \in GatewayShapes : Preflight(p, u, s)
    \/ \E p \in Serial : Serve(p)

SpecGateway == InitGateway /\ [][NextGateway]_vars


\* requests served one at a time, any database statement of which may
\* raise, and the Celery worker
NextFail ==
    \/ \E p \in Serial, u \in Uuids, s \in Shapes : Receive(p, u, s)
    \/ \E p \in Serial, u \in Uuids, s \in Shapes : ReceiveFails(p, u, s)
    \/ \E p \in Serial : Serve(p)
    \/ \E p \in Serial : Fault(p)
    \/ \E i \in 1..MaxCaptures : ProcessAsync(i)

SpecFail == Init /\ [][NextFail]_vars

\* a request that was received runs to its response and a queued task is
\* run; nothing forces a request to arrive or a statement to raise
SpecFailFair ==
    /\ SpecFail
    /\ \A p \in Serial : WF_vars(Serve(p))
    /\ \A i \in 1..MaxCaptures : WF_vars(ProcessAsync(i))

-----------------------------------------------------------------------------
(* Properties *)

\* no request is being served
Quiescent == \A p \in Workers : pc[p] = "idle"

count_of(u) == endpoints[u].current_request_count
quota_of(u) == endpoints[u].max_requests
rows_of(u) == Cardinality(requests_of(u))

\* C1: the stored current_request_count of an endpoint never exceeds its
\* max_requests, whatever the interleaving of the captures.
C1_CountWithinQuota ==
    \A u \in DOMAIN endpoints : count_of(u) <= quota_of(u)

\* C1 witness: concurrent captures have written more rows than the quota and
\* the count stands at the quota.
C1_Witness ==
    \E u \in DOMAIN endpoints :
        /\ rows_of(u) > quota_of(u)
        /\ count_of(u) = quota_of(u)

\* C2: Scenario A.  Quota 1, two captures, nothing else happening (no time
\* has passed): once both are answered, one got 200 and one 410, the count is
\* 1 and the status expired.
C2_ScenarioA ==
    \A u \in DOMAIN endpoints :
        (/\ quota_of(u) = 1
         /\ now = 0
         /\ captures = 2
         /\ Quiescent)
        => /\ answered[200] = 1
           /\ answered[410] = 1
           /\ count_of(u) = 1
           /\ endpoints[u].status = "expired"

\* C3: a capture that arrives when the stored status is not active creates
\* no WebhookRequest row and is answered 410.
C3_GoneStaysGone ==
    \A p \in Workers :
        started_inactive[p] =>
            /\ webhook_request[p] = NoRequest
            /\ (pc[p] = "respond" => response[p] = 410)

\* C4: with no capture in flight, total_requests of an analytics row equals
\* the number of WebhookRequest rows of its endpoint.
C4_AnalyticsMatchesRows ==
    Quiescent =>
        \A u \in DOMAIN analytics : analytics[u].total_requests = rows_of(u)

\* C5: with no capture in flight, current_request_count equals the number of
\* WebhookRequest rows of the endpoint.
C5_CountMatchesRows ==
    Quiescent =>
        \A u \in DOMAIN endpoints : count_of(u) = rows_of(u)

\* C6: a stored status that is expired or disabled never becomes active again.
C6_StatusNeverBackToActive ==
    [][\A u \in DOMAIN endpoints \cap DOMAIN endpoints' :
          endpoints[u].status # "active" => endpoints'[u].status # "active"]_vars

\* C7: no step writes a current_request_count smaller than the stored one.
C7_CountNeverDecreases ==
    [][\A u \in DOMAIN endpoints \cap DOMAIN endpoints' :
          endpoints'[u].current_request_count >= endpoints[u].current_request_count]_vars

\* C8: in every state, an endpoint whose count has been incremented up to
\* its quota is not active: the increment that reaches the quota writes the
\* status expired in the same update.
C8_QuotaReachedMeansNotActive ==
    \A u \in DOMAIN endpoints :
        (count_of(u) >= 1 /\ count_of(u) >= quota_of(u))
            => endpoints[u].status # "active"

\* C8 witness: a capture has just made the count reach the quota.
C8_Witness ==
    \E p \in Workers :
        /\ pc[p] = "mw_analytics"
        /\ hook_uuid[p] \in DOMAIN endpoints
        /\ count_of(hook_uuid[p]) = quota_of(hook_uuid[p])
        /\ count_of(hook_uuid[p]) = webhook[p].current_request_count
        /\ endpoints[hook_uuid[p]].status = "expired"

\* usable iff active, not past the expiry (strictly before it when
\* strict), and under quota
usable_before(w, t, strict) ==
    /\ w.status = "active"
    /\ \/ w.expires_at = None
       \/ IF strict THEN t < w.expires_at ELSE t <= w.expires_at
    /\ w.current_request_count < w.max_requests

\* C9 as stated: every usability decision of the capture path accepts iff
\* status = active, expires_at is unset or now < expires_at, and
\* count < quota; a capture evaluated at now = expires_at is rejected.
C9_DecisionIsUsableStrict ==
    \A p \in Workers :
        decided[p].taken =>
            (decided[p].usable <=> usable_before(decided[p].on, decided[p].at, TRUE))

\* C9 amended: every usability decision of the capture path accepts iff
\* status = active, expires_at is unset or now <= expires_at, and
\* count < quota; a capture evaluated at now = expires_at is accepted.
C9_DecisionIsUsable ==
    \A p \in Workers :
        decided[p].taken =>
            (decided[p].usable <=> usable_before(decided[p].on, decided[p].at, FALSE))

\* C9 witness: a capture was accepted by a check made at the expiry instant.
C9_Witness ==
    \E p \in Workers :
        /\ decided[p].taken
        /\ decided[p].usable
        /\ decided[p].at = decided[p].on.expires_at
        /\ pc[p] = "mw_create"

\* C10: the step by which a check rejects a capture leaves the stored status
\* expired, also when the instance it read was still active.
C10_LazyExpiry ==
    [][\A p \in Workers :
          (/\ pc[p] \in {"view_check", "mw_check"}
           /\ pc'[p] # pc[p]
           /\ ~decided'[p].usable)
          => /\ response'[p] = 410
             /\ hook_uuid[p] \in DOMAIN endpoints'
             /\ endpoints'[hook_uuid[p]].status = "expired"]_vars

\* C10 witness: a capture read an active endpoint, was rejected with 410, and
\* the stored status is expired though no sweep has run.
C10_Witness ==
    \E p \in Workers :
        /\ pc[p] = "respond"
        /\ response[p] = 410
        /\ decided[p].taken
        /\ ~decided[p].usable
        /\ decided[p].on.status = "active"
        /\ endpoints[hook_uuid[p]].status = "expired"
        /\ ~sweep_ran

\* a request to endpoint hook_uuid[p] is being rejected by the check at pc[p]
rejects(p) ==
    /\ pc[p] \in {"view_check", "mw_check"}
    /\ pc'[p] # pc[p]
    /\ is_expired(webhook[p], now)

\* the sweep is running one of its two update(status='expired') statements
sweep_expires == sweep_pc \in {"idle", "limit"} /\ sweep_pc' # sweep_pc

\* C11: a rejected capture or a sweep's marking step leaves the status of a
\* disabled endpoint disabled and leaves every field of an expired endpoint
\* as it was
C11_MarkExpiredIsNoOp ==
    [][(sweep_expires \/ \E p \in Workers : rejects(p)) =>
         \A u \in DOMAIN endpoints :
            /\ endpoints[u].status = "disabled" =>
                   endpoints'[u].status = "disabled"
            /\ endpoints[u].status = "expired" =>
                   endpoints'[u] = endpoints[u]]_vars

\* C12: when the sweep expired an endpoint under a capture already past its
\* check, then once both have finished the endpoint is expired and its count
\* is at most one above the count the sweep saw
C12_SweepWinsOverCapture ==
    \A p \in Workers :
        (/\ pc[p] = "respond"
         /\ trail[p].overtaken > 0
         /\ sweep_pc = "idle"
         /\ hook_uuid[p] \in DOMAIN endpoints) =>
            /\ endpoints[hook_uuid[p]].status = "expired"
            /\ count_of(hook_uuid[p]) <= trail[p].overtaken

\* the sweep is running one of its statements
sweep_steps == sweep_pc' # sweep_pc

\* endpoint row w is due at t: its expiry time has passed or its quota is used up
due(w, t) ==
    \/ (w.expires_at # None /\ w.expires_at < t)
    \/ w.current_request_count >= w.max_requests

\* C13: when a run of the sweep without traffic ends, no endpoint is left
\* active that was due when the run started, and no statement of the run
\* changes the status of an active endpoint that is not due
C13_SweepExpiresTheDue ==
    [][sweep_steps =>
         /\ (sweep_pc' = "idle" /\ sweep_seen.at # None) =>
                \A u \in DOMAIN endpoints' :
                    endpoints'[u].status = "active" =>
                        ~due(endpoints'[u], sweep_seen.at)
         /\ \A u \in DOMAIN endpoints :
                (endpoints[u].status = "active" /\ ~due(endpoints[u], now)) =>
                    /\ u \in DOMAIN endpoints'
                    /\ endpoints'[u].status = "active"]_vars

\* a run has ended that expired one endpoint and left another one active
C13_Witness ==
    /\ sweep_pc = "idle"
    /\ sweep_seen.at # None
    /\ sweep.expired_by_time + sweep.expired_by_limit > 0
    /\ \E u, v \in DOMAIN endpoints :
          /\ endpoints[u].status = "expired"
          /\ endpoints[v].status = "active"

\* the sweep is running its delete loop
sweep_deletes == sweep_pc = "delete" /\ sweep_pc' = "idle"

\* the age of endpoint row w at t is within its own auto-delete horizon
within_horizon(w, t) == t - w.created_at <= Days(w.auto_delete_after_days)

\* C14: the delete step of the sweep keeps every endpoint that is active when
\* the step starts and every endpoint whose age is within its own
\* auto_delete_after_days
C14_SweepKeepsActiveAndYoung ==
    [][sweep_deletes =>
         \A u \in DOMAIN endpoints :
            (endpoints[u].status = "active" \/ within_horizon(endpoints[u], now)) =>
                u \in DOMAIN endpoints']_vars

\* Scenario E: a run has deleted an endpoint and has expired by time another
\* one with zero captures, which still exists within its horizon
C14_Witness ==
    /\ sweep_pc = "idle"
    /\ sweep.expired_by_time > 0
    /\ sweep.deleted_webhooks > 0
    /\ \E u \in DOMAIN endpoints :
          /\ endpoints[u].status = "expired"
          /\ endpoints[u].current_request_count = 0
          /\ endpoints[u].expires_at # None
          /\ endpoints[u].expires_at < now
          /\ within_horizon(endpoints[u], now)

\* C15: the delete step of the sweep removes every non-active endpoint whose
\* age exceeds its own auto_delete_after_days, and afterwards no request or
\* analytics row refers to an endpoint that is gone
C15_SweepDeletesPastHorizon ==
    [][sweep_deletes =>
         /\ \A u \in DOMAIN endpoints :
                (endpoints[u].status # "active" /\ ~within_horizon(endpoints[u], now))
                    => u \notin DOMAIN endpoints'
         /\ \A i \in 1..Len(requests') : requests'[i].webhook \in DOMAIN endpoints'
         /\ DOMAIN analytics' \subseteq DOMAIN endpoints']_vars

\* the run of the sweep that is starting or under way follows, at the same
\* instant and with no request in between, a run that started at that instant
repeating ==
    /\ sweep_seen.at = now
    /\ sweep_pc = "idle" \/ sweep_seen.repeat

\* C16: every statement of a second run of the sweep, at the same instant as
\* the first and with no traffic in between, leaves the store as it is and
\* reports zero for every count
C16_SweepIdempotent ==
    [][(sweep_steps /\ repeating) =>
         /\ store' = store
         /\ sweep' = [expired_by_time |-> 0, expired_by_limit |-> 0,
                      deleted_webhooks |-> 0, deleted_requests |-> 0]]_vars

\* a second run has ended at the instant of the first, which had deleted an
\* endpoint and left an expired one
C16_Witness ==
    /\ sweep_pc = "idle"
    /\ sweep_seen.repeat
    /\ sweep_seen.at = now
    /\ DOMAIN endpoints # SweepUuids
    /\ \E u \in DOMAIN endpoints : endpoints[u].status = "expired"

\* the WebhookRequest row that the request served by p created is stored
recorded(p) == \E i \in 1..Len(requests) : requests[i].id = webhook_request[p].id

\* C17: a capture that failed at its queries, at the insert of its row or at
\* its increment has left no row stored, and its caller is answered with a 5xx
C17_CaptureFailsAtomically ==
    \A p \in Workers :
        (/\ pc[p] = "respond"
         /\ trail[p].failed \in {"view_get", "mw_get", "mw_create", "mw_increment"}) =>
            /\ ~recorded(p)
            /\ response[p] >= 500

\* the analytics row of every endpoint counts the rows of the endpoint
analytics_applied ==
    \A u \in DOMAIN endpoints :
        rows_of(u) > 0 =>
            u \in DOMAIN analytics /\ analytics[u].total_requests = rows_of(u)

\* C18: after a capture whose analytics update failed, the row stays stored
\* and the update is eventually applied: total_requests comes to count the row
C18_AnalyticsRetried ==
    (\E p \in Workers :
        /\ pc[p] = "respond"
        /\ trail[p].failed \in {"mw_analytics", "mw_stats"})
    ~> analytics_applied

\* C19: a request answered with a success has created its WebhookRequest
\* row, and a request answered 410 has created none
C19_AcknowledgedIffRecorded ==
    \A p \in Workers :
        pc[p] = "respond" =>
            /\ response[p] = 200 => webhook_request[p] # NoRequest
            /\ response[p] = 410 => webhook_request[p] = NoRequest

\* C20: the request_count of a capture's acknowledgment is the stored
\* current_request_count right after the capture's own increment
C20_AckCarriesStoredCount ==
    [][\A p \in Workers :
          (pc[p] = "mw_increment" /\ pc'[p] = "mw_analytics") =>
              request_count[p] = endpoints'[hook_uuid[p]].current_request_count]_vars

\* worker p is receiving a request that reaches the view's query
reaches_view(p) ==
    /\ pc[p] = "idle"
    /\ pc'[p] # "idle"
    /\ shape'[p].method \in AllowedMethods \ {"OPTIONS"}

\* C21: a capture addressed to a token that is not stored is answered 404 and
\* leaves every endpoint, request row and analytics row as it was
C21_UnknownTokenIsNotFound ==
    [][\A p \in Workers :
          (reaches_view(p) /\ hook_uuid'[p] \notin DOMAIN endpoints) =>
              /\ response'[p] = 404
              /\ store' = store]_vars

\* worker p is receiving a request for a stored endpoint that is usable
receives_for_usable(p) ==
    /\ pc[p] = "idle"
    /\ pc'[p] # "idle"
    /\ hook_uuid'[p] \in DOMAIN endpoints
    /\ ~is_expired(endpoints[hook_uuid'[p]], now)

\* C22: a request of any method sent to a usable endpoint goes on to the
\* capture: it is not answered before the view has looked at the endpoint
C22_AnyMethodIsCaptured ==
    [][\A p \in Workers : receives_for_usable(p) => pc'[p] = "view_check"]_vars

\* C23: every stored endpoint has a quota of at least 1 and at most 10000
C23_StoredQuotaInRange ==
    \A u \in DOMAIN endpoints :
        /\ quota_of(u) >= MinMaxRequests
        /\ quota_of(u) <= MaxMaxRequests

\* worker p is running one of the handlers that answer in one statement
answers_at_once(p) == pc[p] = "idle" /\ pc'[p] = "respond"

\* C24: a call of a read surface leaves the count and the status of every
\* endpoint and the WebhookAnalytics rows as they were
C24_ReadsDoNotWrite ==
    [][(\E p \in Workers : answers_at_once(p)) =>
         /\ analytics' = analytics
         /\ DOMAIN endpoints' = DOMAIN endpoints
         /\ \A u \in DOMAIN endpoints :
                /\ endpoints'[u].current_request_count = count_of(u)
                /\ endpoints'[u].status = endpoints[u].status]_vars

\* the rows of endpoint u whose method is one of ms
rows_with_method(u, ms) ==
    Cardinality({i \in requests_of(u) : requests[i].method \in ms})

\* the methods that have a bucket of their own
BucketMethods == {"GET", "POST", "PUT", "PATCH", "DELETE"}

\* C25: once the captures of an endpoint, served one after the other, are
\* over, each of get/post/put/patch/delete_requests is the number of the
\* endpoint's rows with that method, other_requests is the number of its rows
\* with any other method, and the six buckets add up to total_requests
C25_MethodBucketsCountRows ==
    Quiescent =>
        \A u \in DOMAIN analytics :
            LET a == analytics[u] IN
            /\ a.get_requests = rows_with_method(u, {"GET"})
            /\ a.post_requests = rows_with_method(u, {"POST"})
            /\ a.put_requests = rows_with_method(u, {"PUT"})
            /\ a.patch_requests = rows_with_method(u, {"PATCH"})
            /\ a.delete_requests = rows_with_method(u, {"DELETE"})
            /\ a.other_requests =
                   Cardinality({i \in requests_of(u) :
                                   requests[i].method \notin BucketMethods})
            /\ a.get_requests + a.post_requests + a.put_requests
                 + a.patch_requests + a.delete_requests + a.other_requests
                 = a.total_requests

\* C25 witness: a GET, a POST and two requests of other methods were
\* captured one after the other
C25_Witness ==
    /\ Quiescent
    /\ \E u \in DOMAIN analytics :
          /\ analytics[u].get_requests = 1
          /\ analytics[u].post_requests = 1
          /\ analytics[u].other_requests = 2
          /\ rows_with_method(u, {"HEAD", "OPTIONS"}) = 2
          /\ analytics[u].total_requests = 4

\* the words looked for in a content type, in the order of their priority
Priority == <<"json", "xml", "form", "text">>

\* the bucket of content type ct: that of the first word of Priority the
\* lower-cased ct contains, the other bucket if it contains none
first_match(ct) ==
    LET hits == {k \in 1..Len(Priority) : contains(lower(ct), Priority[k])} IN
    IF hits = {} THEN "other_content_requests"
    ELSE Priority[CHOOSE k \in hits : \A j \in hits : k <= j] \o "_requests"

ContentBuckets ==
    {"json_requests", "xml_requests", "form_requests", "text_requests",
     "other_content_requests"}

\* C26: the five content type buckets always add up to total_requests, and
\* once the captures are over each bucket is the number of the endpoint's
\* rows whose content type has that bucket as its first match in the order
\* json, xml, form, text (other if none matches or the content type is empty)
C26_ContentBucketsByPriority ==
    \A u \in DOMAIN analytics :
        LET a == analytics[u] IN
        /\ a.json_requests + a.xml_requests + a.form_requests
             + a.text_requests + a.other_content_requests = a.total_requests
        /\ Quiescent =>
              \A f \in ContentBuckets :
                  a[f] = Cardinality({i \in requests_of(u) :
                                         first_match(requests[i].content_type) = f})

\* C26 witness: a content type holding two of the words, in capitals, one
\* holding text and xml, and an empty one were captured
C26_Witness ==
    /\ Quiescent
    /\ \E u \in DOMAIN analytics :
          /\ analytics[u].json_requests = 1
          /\ analytics[u].xml_requests = 1
          /\ analytics[u].other_content_requests = 1
          /\ \E i, j, k \in requests_of(u) :
                /\ requests[i].content_type = "Application/JSON+XML"
                /\ requests[j].content_type = "text/xml"
                /\ requests[k].content_type = ""

\* row k as it was, but for the two fields the task writes
captured_part(rows, k) ==
    [rows[k] EXCEPT !.processed = FALSE, !.processed_at = None]

\* the task for the request of row k runs in this step
task_runs_for(k) == requests[k].id \in queue /\ requests[k].id \notin queue'

\* C27: a WebhookRequest row keeps every field it was created with except
\* processed and processed_at; it is created with processed false, only a
\* run of process_webhook_request_async for it turns processed true, with
\* processed_at, and processed never turns false again
C27_RowImmutableButProcessed ==
    [][/\ Len(requests') >= Len(requests)
       /\ \A k \in 1..Len(requests) :
             /\ captured_part(requests', k) = captured_part(requests, k)
             /\ requests[k].processed => requests'[k].processed
             /\ requests'[k].processed # requests[k].processed =>
                   task_runs_for(k) /\ requests'[k].processed_at # None
             /\ requests'[k].processed_at # requests[k].processed_at =>
                   task_runs_for(k)
       /\ \A k \in (Len(requests) + 1)..Len(requests') :
             ~requests'[k].processed /\ requests'[k].processed_at = None]_vars

\* C27 witness: the task has run for one captured row and not yet for another
C27_Witness ==
    \E j, k \in 1..Len(requests) :
        /\ requests[j].processed
        /\ requests[j].processed_at # None
        /\ ~requests[k].processed
        /\ requests[k].id \in queue

\* C28: the number of stored WebhookRequest rows of an endpoint never
\* exceeds its max_requests, whatever the interleaving of the captures
C28_RowsWithinQuota ==
    \A u \in DOMAIN endpoints : rows_of(u) <= quota_of(u)

\* the received_at of the row of endpoint u received last
last_received(u) ==
    CHOOSE t \in {requests[i].received_at : i \in requests_of(u)} :
        \A i \in requests_of(u) : requests[i].received_at <= t

\* C30: when no capture is in flight, last_request_at of an endpoint's
\* analytics row is the received_at of the endpoint's row received last
C30_LastRequestIsLatestRow ==
    Quiescent =>
        \A u \in DOMAIN analytics :
            requests_of(u) # {} => analytics[u].last_request_at = last_received(u)

\* C29: an endpoint has at most one WebhookAnalytics row, and none before
\* its first request has been captured
C29_AnalyticsRowIsLazy ==
    \A u \in DOMAIN analytics : u \in DOMAIN endpoints /\ requests_of(u) # {}

====
